---- MODULE Spec2Model ----
(***************************************************************************)
(* URL shortener (backend/app.py, middleware/logging_middleware.py).       *)
(*                                                                         *)
(* The three endpoint coroutines contain no await, so each runs to         *)
(* completion on the event loop without interleaving: one action per       *)
(* handler.  Requests are concurrent in the sense that several of them are *)
(* in flight inside LoggingMiddleware.dispatch (which awaits call_next)    *)
(* while the handlers run one after the other in any order.                *)
(*                                                                         *)
(* Strings whose characters the code inspects (shortcodes, URLs) are       *)
(* sequences of one-character strings / tokens.  Optional values are sets  *)
(* with at most one element ({} is None).  Time is an integer clock; one   *)
(* unit is one minute, the unit of `validity`.                             *)
(*                                                                         *)
(* GlobalLogger.log_events is only ever appended to and never read by a    *)
(* handler; the model keeps, with each response, the entry the handler     *)
(* handed to the logger, and not the list.                                 *)
(*                                                                         *)
(* created, redirected and gone are history variables: they record which   *)
(* responses were sent and no handler reads them.                          *)
(***************************************************************************)
EXTENDS Integers, Sequences, FiniteSets, TLC

VARIABLES now, used_shortcodes, url_storage, stats_storage, pc, req, resp,
          created, redirected, gone

vars == <<now, used_shortcodes, url_storage, stats_storage, pc, req, resp,
          created, redirected, gone>>

\* history of the responses sent: the shortcodes returned by a successful
\* creation, and for each shortcode the number of redirects answered 302
\* and the number answered 410
history == <<created, redirected, gone>>

stores == <<used_shortcodes, url_storage, stats_storage>>

(***************************************************************************)
(* Bounds of the model.                                                    *)
(***************************************************************************)
\* number of requests of one run; request p is submitted once
MaxRequests == 3
\* the clock stops advancing here
MaxTime == 2
\* stands for timedelta.max expressed in minutes: a larger validity makes
\* timedelta(minutes=validity) raise OverflowError
MaxTimedeltaMinutes == 31
\* calls of the logger that raise while one handler runs
MaxSinkFaults == 2

\* validity: Optional[int] = 30
DefaultValidity == 30
\* for _ in range(100)
MaxAttempts == 100
\* random.choices(..., k=6)
GenLength == 6
\* len(v) < 4
MinShortcodeLen == 4

Procs == 1..MaxRequests
Times == 0..MaxTime

None == {}
Some(v) == {v}
Unwrap(o) == CHOOSE v \in o : TRUE

(***************************************************************************)
(* Characters and strings.                                                 *)
(***************************************************************************)
AsciiLetters ==
    {"a","b","c","d","e","f","g","h","i","j","k","l","m","n","o","p","q","r",
     "s","t","u","v","w","x","y","z","A","B","C","D","E","F","G","H","I","J",
     "K","L","M","N","O","P","Q","R","S","T","U","V","W","X","Y","Z"}
Digits == {"0","1","2","3","4","5","6","7","8","9"}
Alnum == AsciiLetters \cup Digits

Repeat(ch, n) == [i \in 1..n |-> ch]

\* re.match(r'^[a-zA-Z0-9]+$', v): one or more alphanumerics from the start,
\* then `$`, which in Python matches at the end of the string and also just
\* before a newline that ends the string.
RegexAlnumMatch(v) ==
    \/ /\ Len(v) >= 1
       /\ \A i \in 1..Len(v) : v[i] \in Alnum
    \/ /\ Len(v) >= 2
       /\ v[Len(v)] = "\n"
       /\ \A i \in 1..(Len(v) - 1) : v[i] \in Alnum

(***************************************************************************)
(* Inputs of the requests.                                                 *)
(***************************************************************************)
\* URLs are token sequences: an optional scheme token, a host, a path
GoodUrl == <<"https://", "a.com", "/x">>
BareUrl == <<"a.com", "/x">>

Abcd == <<"a","b","c","d">>

\* custom shortcodes a client may send: well-formed, too short, with a
\* character that is not alphanumeric, ending in a newline, and one that
\* random.choices can draw too
CustomCodes ==
    { Abcd,
      <<"a","b","c">>,
      <<"a","b","-","d">>,
      <<"a","b","c","\n">>,
      Repeat("a", GenLength) }

\* candidates random.choices can draw (a sample of the 62^6 strings)
GenCodes == { Repeat("a", GenLength), Repeat("b", GenLength) }

\* the draws of one run of the loop of generate_shortcode: `split` draws of
\* one candidate, then draws of another; or the same candidate every time
SplitPoints == {1, MaxAttempts - 1}
DrawSeqs ==
    { d \in [split : SplitPoints, first : GenCodes, rest : GenCodes] :
        d.first # d.rest }
    \cup
    { [split |-> MaxAttempts, first |-> c, rest |-> c] : c \in GenCodes }

\* the i-th draw
Draw(draws, i) == IF i <= draws.split THEN draws.first ELSE draws.rest

\* shortcodes in the path of a redirect or stats request
PathCodes == { Abcd, Repeat("a", GenLength) }

\* request.client / user-agent header / referer header of a redirect:
\* nothing known, the two local hosts, another host
NoInfo == [client |-> None, user_agent |-> None, referer |-> None]
ClientInfos ==
    { NoInfo,
      [client |-> Some("127.0.0.1"), user_agent |-> Some("curl"),
       referer |-> Some("http://ref")],
      [client |-> Some("localhost"), user_agent |-> None,
       referer |-> Some("http://ref")],
      [client |-> Some("10.0.0.1"), user_agent |-> Some("curl"),
       referer |-> None] }

NoReq ==
    [kind |-> "none", url |-> <<>>, validity |-> 0, shortcode |-> None,
     path |-> <<>>, info |-> NoInfo]

CreateReq(u, v, sc) ==
    [NoReq EXCEPT !.kind = "create", !.url = u, !.validity = v,
                  !.shortcode = sc]

\* every shortcode with validity 1; validity 0 and a validity beyond
\* timedelta.max; the URL without scheme with the default validity
CreateRequests ==
    { CreateReq(GoodUrl, 1, sc) :
        sc \in {None} \cup {Some(c) : c \in CustomCodes} }
    \cup
    { CreateReq(GoodUrl, 0, Some(Abcd)),
      CreateReq(GoodUrl, MaxTimedeltaMinutes + 1, Some(Abcd)),
      CreateReq(GoodUrl, MaxTimedeltaMinutes + 1, None),
      CreateReq(BareUrl, DefaultValidity, None) }

RedirectRequests ==
    { [NoReq EXCEPT !.kind = "redirect", !.path = c, !.info = i] :
        c \in PathCodes, i \in ClientInfos }

StatsRequests ==
    { [NoReq EXCEPT !.kind = "stats", !.path = c] : c \in PathCodes }

(***************************************************************************)
(* Conversions.                                                            *)
(***************************************************************************)
\* datetime.isoformat() / datetime.fromisoformat(): the text of a naive
\* datetime, which parses back to the same datetime
isoformat(t) == [iso |-> t]
fromisoformat(s) == s.iso

\* url.startswith(('http://', 'https://'))
StartsWithScheme(url) == Len(url) >= 1 /\ url[1] \in {"http://", "https://"}

\* pydantic's HttpUrl: an absolute URL whose scheme is http or https
HttpUrlValid(url) == StartsWithScheme(url) /\ Len(url) >= 2

\* str(request.url): for a URL with lower-case host and an explicit path,
\* the text that was sent
UrlStr(url) == url

ensure_url_scheme(url) ==
    IF ~StartsWithScheme(url) THEN <<"https://">> \o url ELSE url

\* only the address is compared, not the name
get_geographical_info_AddressOnly(ip) ==
    IF ip = "127.0.0.1" THEN "Localhost" ELSE "Unknown Location"

get_geographical_info(ip) ==
    IF ip \in {"127.0.0.1", "localhost"} THEN "Localhost" ELSE "Unknown Location"

\* dict.get(key, default) / `x if request.client else default`
GetOr(o, default) == IF o = None THEN default ELSE Unwrap(o)

(***************************************************************************)
(* URLCreateRequest: the validators.  Each returns the set of its error    *)
(* messages; pydantic reports the errors of all fields together.           *)
(***************************************************************************)
validate_url(u) ==
    IF HttpUrlValid(u) THEN {} ELSE {"invalid or missing URL scheme"}

\* `if v < 0`
validate_validity_AllowsZero(v) ==
    IF v < 0 THEN {"Validity must be greater than 0"} ELSE {}

validate_validity(v) ==
    IF v <= 0 THEN {"Validity must be greater than 0"} ELSE {}

validate_shortcode(o) ==
    IF o # None
    THEN IF Len(Unwrap(o)) < MinShortcodeLen
         THEN {"Shortcode must be at least 4 characters long"}
         ELSE IF ~RegexAlnumMatch(Unwrap(o))
              THEN {"Shortcode can only contain alphanumeric characters"}
              ELSE {}
    ELSE {}

ValidationErrors(r) ==
    validate_url(r.url) \cup validate_validity(r.validity)
        \cup validate_shortcode(r.shortcode)

(***************************************************************************)
(* generate_shortcode: the loop over the draws.                            *)
(***************************************************************************)
RECURSIVE GenLoop(_, _, _)
GenLoop(draws, i, used) ==
    IF i > MaxAttempts
    THEN [raised |-> TRUE, code |-> <<>>, used |-> used]
    ELSE IF Draw(draws, i) \notin used
         THEN [raised |-> FALSE, code |-> Draw(draws, i),
               used |-> used \cup {Draw(draws, i)}]
         ELSE GenLoop(draws, i + 1, used)

\* the first draw is taken without looking it up in used_shortcodes
generate_shortcode_NoLookup(draws, used) ==
    [raised |-> FALSE, code |-> Draw(draws, 1),
     used |-> used \cup {Draw(draws, 1)}]

\* range(MaxAttempts - 1): the loop gives up one draw early
generate_shortcode_OneDrawShort(draws, used) ==
    IF \A i \in 1..(MaxAttempts - 1) : Draw(draws, i) \in used
    THEN [raised |-> TRUE, code |-> <<>>, used |-> used]
    ELSE GenLoop(draws, 1, used)

generate_shortcode(draws, used) == GenLoop(draws, 1, used)

\* timedelta(minutes=validity): OverflowError beyond timedelta.max
TimedeltaOverflows(validity) == validity > MaxTimedeltaMinutes


(***************************************************************************)
(* Responses and log entries.                                              *)
(***************************************************************************)
NoLog == [kind |-> "", type |-> ""]

NoResp ==
    [status |-> 0, detail |-> "", errors |-> {}, shortLink |-> <<>>,
     expiry |-> None, location |-> <<>>, stats |-> None, logged |-> NoLog]

\* GlobalLogger.log_event / log_error: the entry handed to the logger
log_event(response, type) ==
    [response EXCEPT !.logged = [kind |-> "EVENT", type |-> type]]
log_error(response, type) ==
    [response EXCEPT !.logged = [kind |-> "ERROR", type |-> type]]

\* shortLink=f"http://localhost:8000/{shortcode}", and the shortcode a
\* client reads back from it
ShortLink(shortcode) == <<"http://localhost:8000/">> \o shortcode
ShortcodeOf(response) == Tail(response.shortLink)

HTTPException(status_code, detail) ==
    [NoResp EXCEPT !.status = status_code, !.detail = detail]

\* an exception that leaves the handler: no handler is registered for it,
\* dispatch re-raises it from call_next, the server answers 500
Unhandled == [NoResp EXCEPT !.status = 500, !.detail = "Internal Server Error"]

\* The logger raising (print on a closed or broken stdout).  Every handler
\* calls the logger after its last access to the stores, so `response` is
\* what the handler answers with a working logger, and `faults` is the
\* number of its logger calls that raise, from the first on.  A call that
\* raises in the try body is caught by `except Exception`, which calls
\* log_error(failed_type, ..) and raises HTTPException(500, failed_detail);
\* a call that raises inside the except clause leaves the handler.
SinkRaises(response, faults, failed_type, failed_detail) ==
    IF faults = 0 \/ response.logged = NoLog
    THEN response
    ELSE IF response.logged.type = failed_type \/ faults >= 2
         THEN Unhandled
         ELSE log_error(HTTPException(500, failed_detail), failed_type)

(***************************************************************************)
(* The conditions the handlers branch on.                                  *)
(***************************************************************************)
\* `if request.shortcode:` : neither None nor the empty string
ShortcodeGiven(o) == o # None /\ Unwrap(o) # <<>>

\* the lookup left out: a custom shortcode is never found reserved
AlreadyUsed_Never(code, used) == FALSE

\* `request.shortcode in used_shortcodes`
AlreadyUsed(code, used) == code \in used

\* the operands exchanged
IsExpired_Swapped(t, expiry_time) == expiry_time > t

\* `>=` for `>`
IsExpired_NonStrict(t, expiry_time) == t >= expiry_time

\* `datetime.now() > expiry_time`
IsExpired(t, expiry_time) == t > expiry_time

\* the store bound to a new dict that holds the one entry
Put_FreshDict(store, key, value) == [k \in {key} |-> value]

\* store[key] = value
Put(store, key, value) ==
    [k \in DOMAIN store \cup {key} |-> IF k = key THEN value ELSE store[k]]

(***************************************************************************)
(* create_short_url.  t1, t2, t3 are the three readings of datetime.now(), *)
(* g what the call generate_shortcode() does when the handler makes it.    *)
(* The result is the state and the response the handler leaves.            *)
(***************************************************************************)
CreateState(used, url_st, stats_st, response) ==
    [used |-> used, url_st |-> url_st, stats_st |-> stats_st,
     resp |-> response]

\* lines 133-163, after the shortcode is reserved
CreateStore(r, url_str, shortcode, used, t1, t2, t3) ==
    IF TimedeltaOverflows(r.validity)
    THEN CreateState(used, url_storage, stats_storage,
             log_error(HTTPException(500, "Internal server error"),
                       "URL_CREATION_FAILED"))
    ELSE LET expiry_time == t1 + r.validity
         IN  CreateState(used,
                 Put(url_storage, shortcode,
                     [url |-> url_str, created_at |-> isoformat(t2),
                      expiry |-> isoformat(expiry_time), clicks |-> 0]),
                 Put(stats_storage, shortcode,
                     [total_clicks |-> 0, clicks_data |-> <<>>,
                      original_url |-> url_str,
                      created_at |-> isoformat(t3),
                      expiry |-> isoformat(expiry_time)]),
                 log_event([NoResp EXCEPT !.status = 201,
                     !.shortLink = ShortLink(shortcode),
                     !.expiry = Some(isoformat(expiry_time))],
                     "URL_CREATED"))

create_short_url(r, g, t1, t2, t3) ==
    IF ValidationErrors(r) # {}
    THEN CreateState(used_shortcodes, url_storage, stats_storage,
             [NoResp EXCEPT !.status = 422, !.errors = ValidationErrors(r)])
    ELSE LET url_str == ensure_url_scheme(UrlStr(r.url))
         IN  IF ShortcodeGiven(r.shortcode)
             THEN IF AlreadyUsed(Unwrap(r.shortcode), used_shortcodes)
                  THEN CreateState(used_shortcodes, url_storage, stats_storage,
                           log_error(HTTPException(400,
                                         "Shortcode already exists"),
                                     "SHORTCODE_EXISTS"))
                  ELSE CreateStore(r, url_str, Unwrap(r.shortcode),
                           used_shortcodes \cup {Unwrap(r.shortcode)},
                           t1, t2, t3)
             ELSE IF g.raised
                  THEN CreateState(used_shortcodes, url_storage,
                           stats_storage,
                           HTTPException(500,
                               "Unable to generate unique shortcode"))
                  ELSE CreateStore(r, url_str, g.code, g.used, t1, t2, t3)

(***************************************************************************)
(* get_short_url_stats.  t is the reading of datetime.now().  The result   *)
(* is the response: the handler changes no store.                          *)
(***************************************************************************)
\* lines 196-222
StatsReport(shortcode, is_expired) ==
    LET stats == stats_storage[shortcode]
    IN  log_event([NoResp EXCEPT !.status = 200,
             !.stats = Some([shortcode |-> shortcode,
                 original_url |-> stats.original_url,
                 total_clicks |-> stats.total_clicks,
                 created_at |-> stats.created_at,
                 expiry |-> stats.expiry,
                 clicks_data |-> stats.clicks_data,
                 is_expired |-> is_expired])],
             "STATS_ACCESSED")

\* is_expired computed with `>=` here, with `>` in the redirect
StatsResponse_NonStrict(shortcode, t) ==
    StatsReport(shortcode,
        IsExpired_NonStrict(t, fromisoformat(stats_storage[shortcode].expiry)))

\* lines 190-222
StatsResponse(shortcode, t) ==
    StatsReport(shortcode,
        IsExpired(t, fromisoformat(stats_storage[shortcode].expiry)))

\* the shortcode looked up in used_shortcodes; the KeyError of a shortcode
\* without stats is answered 500 by the `except Exception`
get_short_url_stats_ByReservation(shortcode, t) ==
    IF shortcode \notin used_shortcodes
    THEN log_error(HTTPException(404, "Short URL not found"),
                   "STATS_NOT_FOUND")
    ELSE IF shortcode \in DOMAIN stats_storage
         THEN StatsResponse(shortcode, t)
         ELSE log_error(HTTPException(500, "Unable to retrieve statistics"),
                        "STATS_FAILED")

get_short_url_stats(shortcode, t) ==
    IF shortcode \notin DOMAIN stats_storage
    THEN log_error(HTTPException(404, "Short URL not found"),
                   "STATS_NOT_FOUND")
    ELSE StatsResponse(shortcode, t)

\* the access counted in the dict that `stats` refers to
StatsStorageAfterStats_CountsAccess(stats_st, shortcode) ==
    IF shortcode \in DOMAIN stats_st
    THEN [stats_st EXCEPT ![shortcode].total_clicks = @ + 1]
    ELSE stats_st

\* stats_storage once the handler has run: `stats` (line 190) refers to the
\* stored dict, the handler only reads it, and the list comprehension of
\* lines 197-206 builds new objects from clicks_data
StatsStorageAfterStats(stats_st, shortcode) == stats_st

(***************************************************************************)
(* redirect_short_url.  t1 and t2 are the two readings of datetime.now().  *)
(***************************************************************************)
RedirectState(url_st, stats_st, response) ==
    [url_st |-> url_st, stats_st |-> stats_st, resp |-> response]

\* lines 248-263
ClickData(info, t) ==
    LET client_ip == GetOr(info.client, "unknown")
        user_agent == GetOr(info.user_agent, "unknown")
        referer == GetOr(info.referer, "direct")
    IN  [timestamp |-> isoformat(t), source |-> referer,
         user_agent |-> user_agent, ip |-> client_ip,
         geographical_info |-> get_geographical_info(client_ip)]

\* the increment of line 254 left out
UpdateClickCount_Skipped(url_st, shortcode) == url_st

\* line 254
UpdateClickCount(url_st, shortcode) ==
    [url_st EXCEPT ![shortcode].clicks = @ + 1]

\* total_clicks written back from a value read before another click
RecordClick_LostUpdate(stats_st, shortcode, click_data) ==
    [stats_st EXCEPT ![shortcode].total_clicks =
                         IF @ = 0 THEN 1 ELSE @,
                     ![shortcode].clicks_data = Append(@, click_data)]

\* the click appended without the increment of line 265
RecordClick_AppendOnly(stats_st, shortcode, click_data) ==
    [stats_st EXCEPT ![shortcode].clicks_data = Append(@, click_data)]

\* lines 265-266
RecordClick(stats_st, shortcode, click_data) ==
    [stats_st EXCEPT ![shortcode].total_clicks = @ + 1,
                     ![shortcode].clicks_data = Append(@, click_data)]

redirect_short_url(shortcode, info, t1, t2) ==
    IF shortcode \notin DOMAIN url_storage
    THEN RedirectState(url_storage, stats_storage,
             log_error(HTTPException(404, "Short URL not found"),
                       "SHORTCODE_NOT_FOUND"))
    ELSE LET url_data == url_storage[shortcode]
             expiry_time == fromisoformat(url_data.expiry)
         IN  IF IsExpired(t1, expiry_time)
             THEN RedirectState(url_storage, stats_storage,
                      log_error(HTTPException(410, "Short URL has expired"),
                                "URL_EXPIRED"))
             ELSE RedirectState(
                      UpdateClickCount(url_storage, shortcode),
                      RecordClick(stats_storage, shortcode,
                                  ClickData(info, t2)),
                      log_event([NoResp EXCEPT !.status = 302,
                                     !.location = url_data.url],
                                "URL_REDIRECT"))

(***************************************************************************)
(* The state machine.  Request p is in flight (LoggingMiddleware.dispatch  *)
(* awaits call_next) from Dispatch until its handler has run; several      *)
(* requests are in flight together.  The content of a request is read when *)
(* its handler runs, so requests in flight are alike and the handler of    *)
(* the first of them stands for the handler of any.  req and resp are the  *)
(* request handled last and the response to it.                            *)
(***************************************************************************)
Init ==
    /\ now = 0
    /\ used_shortcodes = {}
    /\ url_storage = << >>
    /\ stats_storage = << >>
    /\ pc = [p \in Procs |-> "idle"]
    /\ req = NoReq
    /\ resp = NoResp
    /\ created = {}
    /\ redirected = [c \in PathCodes |-> 0]
    /\ gone = [c \in PathCodes |-> 0]

\* the clock advances
Tick ==
    /\ now < MaxTime
    /\ now' = now + 1
    /\ UNCHANGED <<stores, pc, req, resp, history>>

\* a later reading of the clock in the same handler
Later(t) == {u \in Times : t <= u /\ u <= t + 1}

\* LoggingMiddleware.dispatch up to `await call_next(request)`
Dispatch(p) ==
    /\ pc[p] = "idle"
    /\ p > 1 => pc[p - 1] # "idle"
    /\ pc' = [pc EXCEPT ![p] = "pending"]
    /\ UNCHANGED <<now, stores, req, resp, history>>

\* the handler of request p may run
Runs(p) ==
    /\ pc[p] = "pending"
    /\ p > 1 => pc[p - 1] = "done"

\* the draws matter only to a request that has generate_shortcode called
RequestsFor(draws) ==
    { r \in CreateRequests :
        r.shortcode = None \/ (draws.split = MaxAttempts
                               /\ draws.first = Repeat("a", GenLength)) }

\* the handlers; Faults is what the logger may do while the handler runs
CreateShortUrlWith(p, Faults) ==
    /\ Runs(p)
    /\ \E draws \in DrawSeqs :
          \E g \in {generate_shortcode(draws, used_shortcodes)} :
              \E r \in RequestsFor(draws) :
              \E t2 \in Later(now) : \E t3 \in Later(t2) :
              \E faults \in Faults :
                 LET o == create_short_url(r, g, now, t2, t3)
                 IN  /\ used_shortcodes' = o.used
                     /\ url_storage' = o.url_st
                     /\ stats_storage' = o.stats_st
                     /\ req' = r
                     /\ resp' = SinkRaises(o.resp, faults,
                                   "URL_CREATION_FAILED",
                                   "Internal server error")
                     /\ now' = t3
                     /\ created' = IF resp'.status = 201
                                    THEN created \cup {ShortcodeOf(resp')}
                                    ELSE created
    /\ pc' = [pc EXCEPT ![p] = "done"]
    /\ UNCHANGED <<redirected, gone>>

GetShortUrlStatsWith(p, Faults) ==
    /\ Runs(p)
    /\ \E r \in StatsRequests : \E faults \in Faults :
          /\ req' = r
          /\ resp' = SinkRaises(get_short_url_stats(r.path, now), faults,
                        "STATS_FAILED", "Unable to retrieve statistics")
          /\ stats_storage' = StatsStorageAfterStats(stats_storage, r.path)
    /\ pc' = [pc EXCEPT ![p] = "done"]
    /\ UNCHANGED <<now, used_shortcodes, url_storage, history>>

RedirectShortUrlWith(p, Faults) ==
    /\ Runs(p)
    /\ \E r \in RedirectRequests : \E t2 \in Later(now) :
      \E faults \in Faults :
          LET o == redirect_short_url(r.path, r.info, now, t2)
          IN  /\ url_storage' = o.url_st
              /\ stats_storage' = o.stats_st
              /\ req' = r
              /\ resp' = SinkRaises(o.resp, faults, "REDIRECT_FAILED",
                            "Internal server error")
              /\ now' = t2
              /\ redirected' = IF resp'.status = 302
                                THEN [redirected EXCEPT ![r.path] = @ + 1]
                                ELSE redirected
              /\ gone' = IF resp'.status = 410
                          THEN [gone EXCEPT ![r.path] = @ + 1]
                          ELSE gone
    /\ pc' = [pc EXCEPT ![p] = "done"]
    /\ UNCHANGED <<used_shortcodes, created>>

\* the logger works
WorkingSink == {0}

CreateShortUrl(p) == CreateShortUrlWith(p, WorkingSink)
GetShortUrlStats(p) == GetShortUrlStatsWith(p, WorkingSink)
RedirectShortUrl(p) == RedirectShortUrlWith(p, WorkingSink)

Next ==
    \/ Tick
    \/ \E p \in Procs : Dispatch(p)
    \/ \E p \in Procs : CreateShortUrl(p)
    \/ \E p \in Procs : GetShortUrlStats(p)
    \/ \E p \in Procs : RedirectShortUrl(p)

Spec == Init /\ [][Next]_vars

(***************************************************************************)
(* The same system with a logger that may raise: each handler runs with    *)
(* any number of failing logger calls.                                     *)
(***************************************************************************)
SinkFaults == 0..MaxSinkFaults

CreateShortUrlSink(p) == CreateShortUrlWith(p, SinkFaults)
GetShortUrlStatsSink(p) == GetShortUrlStatsWith(p, SinkFaults)
RedirectShortUrlSink(p) == RedirectShortUrlWith(p, SinkFaults)

NextSink ==
    \/ Tick
    \/ \E p \in Procs : Dispatch(p)
    \/ \E p \in Procs : CreateShortUrlSink(p)
    \/ \E p \in Procs : GetShortUrlStatsSink(p)
    \/ \E p \in Procs : RedirectShortUrlSink(p)

SpecSink == Init /\ [][NextSink]_vars

(***************************************************************************)
(* Vocabulary of the properties.                                           *)
(***************************************************************************)
\* this step is the run of a handler: req' is its request, resp' its response
Handled == \E p \in Procs : pc[p] = "pending" /\ pc'[p] = "done"

AllAlnum(code) == \A i \in 1..Len(code) : code[i] \in Alnum

ExpiresAt(shortcode) == fromisoformat(url_storage[shortcode].expiry)

Redirected(shortcode) ==
    IF shortcode \in DOMAIN redirected THEN redirected[shortcode] ELSE 0

InvalidFormat(response) ==
    /\ response.status = 422
    /\ response.errors \cap
         {"Shortcode must be at least 4 characters long",
          "Shortcode can only contain alphanumeric characters"} # {}

InvalidValidity(response) ==
    /\ response.status = 422
    /\ "Validity must be greater than 0" \in response.errors

AlreadyExists(response) ==
    response.status = 400 /\ response.detail = "Shortcode already exists"

(***************************************************************************)
(* C1.  Of N >= 2 creation requests in flight together that ask for the    *)
(* same valid custom shortcode exactly one succeeds and the others fail    *)
(* with AlreadyExists (400): the one handled while the shortcode is not    *)
(* reserved succeeds, every one handled once it is reserved fails.         *)
(***************************************************************************)
C1_OneCustomCreationSucceeds ==
    [][ ( /\ Handled
          /\ Cardinality({q \in Procs : pc[q] = "pending"}) >= 2
          /\ req'.kind = "create"
          /\ HttpUrlValid(req'.url)
          /\ req'.validity > 0
          /\ req'.shortcode # None
          /\ Len(Unwrap(req'.shortcode)) >= MinShortcodeLen
          /\ AllAlnum(Unwrap(req'.shortcode)) )
        => IF Unwrap(req'.shortcode) \in used_shortcodes
           THEN AlreadyExists(resp')
           ELSE /\ resp'.status = 201
                /\ ShortcodeOf(resp') = Unwrap(req'.shortcode) ]_vars

(***************************************************************************)
(* C2.  For every shortcode, total_clicks, the length of clicks_data and   *)
(* the clicks of url_storage are equal, and equal to the number of         *)
(* redirects of that shortcode that succeeded, whatever the order in which *)
(* the handlers of the requests in flight ran.                             *)
(***************************************************************************)
C2_ClickCountsAgree ==
    \A c \in DOMAIN url_storage \cup DOMAIN stats_storage :
        /\ c \in DOMAIN url_storage
        /\ c \in DOMAIN stats_storage
        /\ stats_storage[c].total_clicks = Len(stats_storage[c].clicks_data)
        /\ stats_storage[c].total_clicks = url_storage[c].clicks
        /\ stats_storage[c].total_clicks = Redirected(c)

\* two redirects of one shortcode were answered
C2_Witness ==
    \E c \in DOMAIN stats_storage :
        stats_storage[c].total_clicks = 2 /\ Redirected(c) = 2

(***************************************************************************)
(* C3.  A redirect of an existing shortcode at a time now > expires_at is  *)
(* answered Expired (410) and changes neither url_storage nor              *)
(* stats_storage: no click is recorded.                                    *)
(***************************************************************************)
C3_ExpiredRedirectRecordsNothing ==
    [][ ( /\ Handled
          /\ req'.kind = "redirect"
          /\ req'.path \in DOMAIN url_storage
          /\ now > ExpiresAt(req'.path) )
        => /\ resp'.status = 410
           /\ url_storage' = url_storage
           /\ stats_storage' = stats_storage ]_vars

\* an expired redirect of a shortcode that has a click
C3_Witness ==
    /\ req.kind = "redirect"
    /\ resp.status = 410
    /\ req.path \in DOMAIN stats_storage
    /\ stats_storage[req.path].total_clicks >= 1

(***************************************************************************)
(* C4.  Expiry is strict in the redirect and in the stats: a redirect of   *)
(* an existing shortcode is answered 410 exactly when now > expires_at and *)
(* succeeds exactly when now <= expires_at; the stats report is_expired    *)
(* exactly when now > expires_at.                                          *)
(***************************************************************************)
C4_ExpiryIsStrict ==
    [][ Handled =>
          /\ ( req'.kind = "redirect" /\ req'.path \in DOMAIN url_storage )
             => /\ (resp'.status = 410) = (now > ExpiresAt(req'.path))
                /\ (resp'.status = 302) = (now <= ExpiresAt(req'.path))
          /\ ( req'.kind = "stats" /\ req'.path \in DOMAIN stats_storage )
             => /\ resp'.status = 200
                /\ Unwrap(resp'.stats).is_expired =
                     (now > fromisoformat(stats_storage[req'.path].expiry))
      ]_vars

\* a redirect that succeeded at now = expires_at: the record was complete
\* at expires_at, and the clock still shows expires_at
C4_Witness ==
    /\ req.kind = "redirect"
    /\ resp.status = 302
    /\ fromisoformat(stats_storage[req.path].created_at) = ExpiresAt(req.path)
    /\ now = ExpiresAt(req.path)

(***************************************************************************)
(* C5.  A creation with a URL that has no http:// or https:// prefix and   *)
(* validity 30 succeeds, and the stats of the returned shortcode then show *)
(* original_url = "https://" + the URL and total_clicks = 0.               *)
(***************************************************************************)
C5_SchemelessRoundTrip ==
    ( /\ req.kind = "create"
      /\ ~StartsWithScheme(req.url)
      /\ req.validity = 30
      /\ req.shortcode = None )
    => /\ resp.status = 201
       /\ LET report == get_short_url_stats(ShortcodeOf(resp), now)
          IN  /\ report.status = 200
              /\ Unwrap(report.stats).original_url = <<"https://">> \o req.url
              /\ Unwrap(report.stats).total_clicks = 0

(***************************************************************************)
(* C6.  A redirect of a shortcode that was successfully created, at a time *)
(* now <= expires_at, succeeds, returns the stored target URL, increases   *)
(* clicks, total_clicks and the length of clicks_data of that shortcode by *)
(* one each, and changes nothing of any other shortcode.                   *)
(***************************************************************************)
C6_LiveRedirectCountsOnce ==
    [][ ( /\ Handled
          /\ req'.kind = "redirect"
          /\ req'.path \in created )
        => LET c == req'.path
           IN  /\ c \in DOMAIN url_storage
               /\ c \in DOMAIN stats_storage
               /\ now <= ExpiresAt(c) =>
                    /\ resp'.status = 302
                    /\ resp'.location = url_storage[c].url
                    /\ url_storage' =
                         [url_storage EXCEPT ![c].clicks = @ + 1]
                    /\ DOMAIN stats_storage' = DOMAIN stats_storage
                    /\ stats_storage'[c].total_clicks =
                         stats_storage[c].total_clicks + 1
                    /\ Len(stats_storage'[c].clicks_data) =
                         Len(stats_storage[c].clicks_data) + 1
                    /\ \A d \in DOMAIN stats_storage \ {c} :
                         stats_storage'[d] = stats_storage[d]
                    /\ used_shortcodes' = used_shortcodes ]_vars

\* a redirect succeeded while another shortcode has a record
C6_Witness ==
    /\ req.kind = "redirect"
    /\ resp.status = 302
    /\ Cardinality(DOMAIN url_storage) >= 2

(***************************************************************************)
(* C7.  A creation with a custom shortcode that is shorter than 4          *)
(* characters or contains a character that is not alphanumeric fails with  *)
(* InvalidFormat and changes no store.                                     *)
(***************************************************************************)
C7_BadShortcodeRejected ==
    [][ ( /\ Handled
          /\ req'.kind = "create"
          /\ req'.shortcode # None
          /\ \/ Len(Unwrap(req'.shortcode)) < 4
             \/ ~AllAlnum(Unwrap(req'.shortcode)) )
        => /\ InvalidFormat(resp')
           /\ stores' = stores ]_vars

(***************************************************************************)
(* C8.  The shortcode returned by a creation without custom shortcode has  *)
(* exactly 6 characters, all alphanumeric, and was neither reserved nor    *)
(* stored before; it is reserved afterwards.                               *)
(***************************************************************************)
C8_GeneratedCodeIsFresh ==
    [][ ( /\ Handled
          /\ req'.kind = "create"
          /\ req'.shortcode = None
          /\ resp'.status = 201 )
        => LET c == ShortcodeOf(resp')
           IN  /\ Len(c) = 6
               /\ AllAlnum(c)
               /\ c \notin used_shortcodes
               /\ c \notin DOMAIN url_storage
               /\ c \notin created
               /\ c \in used_shortcodes'
               /\ c \in DOMAIN url_storage' ]_vars

\* a generated shortcode was returned after every other candidate had been
\* returned or reserved
C8_Witness ==
    /\ req.kind = "create"
    /\ req.shortcode = None
    /\ resp.status = 201
    /\ GenCodes \subseteq created

(***************************************************************************)
(* C9.  A creation with validity <= 0 is rejected with InvalidValidity and *)
(* leaves used_shortcodes, url_storage and stats_storage unchanged.        *)
(***************************************************************************)
C9_BadValidityRejected ==
    [][ ( /\ Handled
          /\ req'.kind = "create"
          /\ req'.validity <= 0 )
        => /\ InvalidValidity(resp')
           /\ stores' = stores ]_vars

\* rejected with a custom shortcode, which is not reserved
C9_Witness ==
    /\ req.kind = "create"
    /\ req.validity <= 0
    /\ req.shortcode # None
    /\ InvalidValidity(resp)
    /\ Unwrap(req.shortcode) \notin used_shortcodes

(***************************************************************************)
(* C10.  A redirect and a stats request for a shortcode that was never     *)
(* successfully created are answered NotFound (404) and change no store.   *)
(***************************************************************************)
C10_UnknownShortcodeNotFound ==
    [][ ( /\ Handled
          /\ req'.kind \in {"redirect", "stats"}
          /\ req'.path \notin created )
        => /\ resp'.status = 404
           /\ stores' = stores ]_vars

\* NotFound for a shortcode that is reserved but was never created
C10_Witness ==
    /\ req.kind \in {"redirect", "stats"}
    /\ resp.status = 404
    /\ req.path \in used_shortcodes

(***************************************************************************)
(* C11.  A failure of the logger never changes the outcome of a core       *)
(* operation: whatever the logger does, a creation, a redirect and a stats *)
(* request are answered as they are with a working logger.                 *)
(***************************************************************************)
C11_SinkFailureIgnored ==
    [][ Handled =>
          /\ req'.kind = "redirect"
             => resp' = redirect_short_url(req'.path, req'.info, now, now').resp
          /\ req'.kind = "stats"
             => resp' = get_short_url_stats(req'.path, now)
          /\ req'.kind = "create"
             => \E draws \in DrawSeqs : \E t2 \in Later(now) :
                   resp' = create_short_url(req',
                               generate_shortcode(draws, used_shortcodes),
                               now, t2, now').resp
      ]_vars

(***************************************************************************)
(* C12.  The stats operation is read-only: whether it is answered 200 or   *)
(* 404, it leaves used_shortcodes, url_storage and stats_storage as they   *)
(* were, and with them every click count, click sequence and expiry.       *)
(***************************************************************************)
C12_StatsReadOnly ==
    [][ ( Handled /\ req'.kind = "stats" )
        => /\ used_shortcodes' = used_shortcodes
           /\ url_storage' = url_storage
           /\ stats_storage' = stats_storage ]_vars

\* stats answered for a shortcode that has a click
C12_Witness ==
    /\ req.kind = "stats"
    /\ resp.status = 200
    /\ Unwrap(resp.stats).total_clicks >= 1
    /\ Len(stats_storage[req.path].clicks_data) >= 1

(***************************************************************************)
(* C13.  Every snapshot a stats request returns, with redirects of the     *)
(* same shortcode in flight, has total_clicks equal to the length of its   *)
(* clicks_data: no reader sees the increment without the appended event    *)
(* or the event without the increment.                                     *)
(***************************************************************************)
C13_SnapshotCountsAgree ==
    ( req.kind = "stats" /\ resp.stats # None )
    => Unwrap(resp.stats).total_clicks = Len(Unwrap(resp.stats).clicks_data)

\* the snapshot of the last of the requests shows the click of an earlier
\* one; every request was in flight before the first handler ran
C13_Witness ==
    /\ req.kind = "stats"
    /\ resp.status = 200
    /\ Unwrap(resp.stats).total_clicks = 1
    /\ Redirected(req.path) = 1
    /\ \A p \in Procs : pc[p] = "done"

(***************************************************************************)
(* C14.  For every stored record, in url_storage and in stats_storage,     *)
(* expires_at = created_at + validity, the clock being free to advance     *)
(* between two readings of the time by one creation.                       *)
(***************************************************************************)
C14_ExpiryFromCreatedAt ==
    [][ ( /\ Handled
          /\ req'.kind = "create"
          /\ resp'.status = 201 )
        => LET c == ShortcodeOf(resp')
           IN  /\ fromisoformat(url_storage'[c].expiry) =
                    fromisoformat(url_storage'[c].created_at) + req'.validity
               /\ fromisoformat(stats_storage'[c].expiry) =
                    fromisoformat(stats_storage'[c].created_at) + req'.validity
      ]_vars

(***************************************************************************)
(* C15.  Shortcode generation ends after at most 100 draws: it returns the *)
(* first candidate drawn that is not reserved, and fails with              *)
(* ExhaustedAttempts (500) exactly when all 100 candidates are reserved;   *)
(* then nothing is reserved and no record or stats entry is created.       *)
(* Stated of a creation without custom shortcode run with any sequence of  *)
(* draws in any reachable state in which a handler may run, and of the     *)
(* creations that ran.                                                     *)
(***************************************************************************)
ExhaustedAttempts(response) ==
    /\ response.status = 500
    /\ response.detail = "Unable to generate unique shortcode"

AllCollide(draws) ==
    \A i \in 1..MaxAttempts : Draw(draws, i) \in used_shortcodes

FirstFree(draws, i) ==
    /\ Draw(draws, i) \notin used_shortcodes
    /\ \A j \in 1..(i - 1) : Draw(draws, j) \in used_shortcodes

\* the valid requests without custom shortcode
GeneratingRequests ==
    { CreateReq(GoodUrl, 1, None),
      CreateReq(GoodUrl, MaxTimedeltaMinutes + 1, None) }

C15_GenerationOutcome ==
    (\E p \in Procs : Runs(p)) =>
    \A draws \in DrawSeqs :
      \A g \in {generate_shortcode(draws, used_shortcodes)} :
      \A r \in GeneratingRequests :
      \A o \in {create_short_url(r, g, now, now, now)} :
         IF AllCollide(draws)
         THEN /\ ExhaustedAttempts(o.resp)
              /\ o.used = used_shortcodes
              /\ o.url_st = url_storage
              /\ o.stats_st = stats_storage
         ELSE /\ ~ExhaustedAttempts(o.resp)
              /\ \E i \in 1..MaxAttempts :
                    /\ FirstFree(draws, i)
                    /\ o.used = used_shortcodes \cup {Draw(draws, i)}
                    /\ o.resp.status = 201
                          => ShortcodeOf(o.resp) = Draw(draws, i)

C15_ExhaustedChangesNothing ==
    ( /\ Handled
      /\ req'.kind = "create"
      /\ ExhaustedAttempts(resp') )
    => /\ req'.shortcode = None
       /\ \E draws \in DrawSeqs : AllCollide(draws)
       /\ stores' = stores

C15_GenerationTerminates ==
    []C15_GenerationOutcome /\ [][C15_ExhaustedChangesNothing]_vars

\* a creation failed with ExhaustedAttempts although a candidate is free
\* that the draws did not contain
C15_Witness ==
    /\ req.kind = "create"
    /\ ExhaustedAttempts(resp)
    /\ GenCodes \ used_shortcodes # {}

(***************************************************************************)
(* C16.  In every step the click count of each shortcode does not decrease *)
(* and its sequence of click events is only appended to (the sequence      *)
(* before the step is a prefix of the sequence after it); only a           *)
(* successful redirect of that shortcode changes either.                   *)
(***************************************************************************)
IsPrefix(s, t) == Len(s) <= Len(t) /\ SubSeq(t, 1, Len(s)) = s

ClicksOf(url_st, stats_st, c) ==
    <<url_st[c].clicks, stats_st[c].total_clicks, stats_st[c].clicks_data>>

C16_ClicksAppendOnly ==
    [][ \A c \in DOMAIN url_storage \cap DOMAIN stats_storage :
          /\ c \in DOMAIN url_storage'
          /\ c \in DOMAIN stats_storage'
          /\ url_storage'[c].clicks >= url_storage[c].clicks
          /\ stats_storage'[c].total_clicks >= stats_storage[c].total_clicks
          /\ IsPrefix(stats_storage[c].clicks_data,
                      stats_storage'[c].clicks_data)
          /\ ClicksOf(url_storage', stats_storage', c)
                 # ClicksOf(url_storage, stats_storage, c)
             => /\ Handled
                /\ req'.kind = "redirect"
                /\ req'.path = c
                /\ resp'.status = 302
      ]_vars

\* a creation succeeded while another shortcode has a click
C16_Witness ==
    /\ req.kind = "create"
    /\ resp.status = 201
    /\ \E c \in DOMAIN stats_storage :
          /\ c # ShortcodeOf(resp)
          /\ stats_storage[c].total_clicks >= 1
          /\ Len(stats_storage[c].clicks_data) >= 1

(***************************************************************************)
(* C17.  Once the record of a shortcode exists, its target URL, its        *)
(* created_at and its expires_at never change and the record is never      *)
(* removed, whatever requests follow: creations that fail or succeed, with *)
(* a custom or a generated shortcode, redirects and stats requests.        *)
(***************************************************************************)
C17_RecordImmutable ==
    [][ /\ \A c \in DOMAIN url_storage :
             /\ c \in DOMAIN url_storage'
             /\ url_storage'[c].url = url_storage[c].url
             /\ url_storage'[c].created_at = url_storage[c].created_at
             /\ url_storage'[c].expiry = url_storage[c].expiry
        /\ \A c \in DOMAIN stats_storage :
             /\ c \in DOMAIN stats_storage'
             /\ stats_storage'[c].original_url = stats_storage[c].original_url
             /\ stats_storage'[c].created_at = stats_storage[c].created_at
             /\ stats_storage'[c].expiry = stats_storage[c].expiry
      ]_vars

\* a creation asked for a shortcode that has a record with a click, at a
\* later time than the record was created, and was refused
C17_Witness ==
    /\ req.kind = "create"
    /\ AlreadyExists(resp)
    /\ Unwrap(req.shortcode) \in DOMAIN url_storage
    /\ url_storage[Unwrap(req.shortcode)].clicks >= 1
    /\ now > fromisoformat(url_storage[Unwrap(req.shortcode)].created_at)

(***************************************************************************)
(* C18.  The click event a successful redirect appends carries the         *)
(* caller's inputs with the defaults: referrer "direct" without referer,   *)
(* user_agent "unknown" without user-agent, client IP "unknown" without    *)
(* client; geo_hint is "Localhost" exactly when the client IP is           *)
(* "127.0.0.1" or "localhost", and "Unknown Location" otherwise.           *)
(***************************************************************************)
LastClick(stats_st, c) ==
    stats_st[c].clicks_data[Len(stats_st[c].clicks_data)]

C18_ClickEventDefaults ==
    [][ ( /\ Handled
          /\ req'.kind = "redirect"
          /\ resp'.status = 302 )
        => LET e == LastClick(stats_storage', req'.path)
               info == req'.info
           IN  /\ Len(stats_storage'[req'.path].clicks_data) =
                    Len(stats_storage[req'.path].clicks_data) + 1
               /\ e.source = IF info.referer = None THEN "direct"
                              ELSE Unwrap(info.referer)
               /\ e.user_agent = IF info.user_agent = None THEN "unknown"
                                  ELSE Unwrap(info.user_agent)
               /\ e.ip = IF info.client = None THEN "unknown"
                          ELSE Unwrap(info.client)
               /\ e.geographical_info =
                    IF e.ip = "127.0.0.1" \/ e.ip = "localhost"
                    THEN "Localhost" ELSE "Unknown Location"
      ]_vars

\* a click from the host named "localhost" that sent no user-agent
C18_Witness ==
    /\ req.kind = "redirect"
    /\ resp.status = 302
    /\ req.info.client = Some("localhost")
    /\ LastClick(stats_storage, req.path).geographical_info = "Localhost"
    /\ LastClick(stats_storage, req.path).user_agent = "unknown"

(***************************************************************************)
(* C19.  Whenever no creation is in progress the three stores hold the     *)
(* same shortcodes: the keys of url_storage, the keys of stats_storage and *)
(* used_shortcodes are equal, whatever the outcome of the creations that   *)
(* ran, one that failed after reserving its shortcode included.            *)
(***************************************************************************)
C19_StoresAgree ==
    /\ DOMAIN url_storage = DOMAIN stats_storage
    /\ DOMAIN url_storage = used_shortcodes

(***************************************************************************)
(* C20.  With a clock that never goes backwards expiry is permanent and    *)
(* the two read paths agree on it: once a redirect of a shortcode was      *)
(* answered Expired, every later redirect of it is answered Expired and    *)
(* records no click; and the stats report is_expired exactly when a        *)
(* redirect at the same time would be answered Expired.                    *)
(***************************************************************************)
Gone(shortcode) == IF shortcode \in DOMAIN gone THEN gone[shortcode] ELSE 0

C20_ExpiryPermanent ==
    [][ Handled =>
          /\ ( req'.kind = "redirect" /\ Gone(req'.path) >= 1 )
             => /\ resp'.status = 410
                /\ url_storage' = url_storage
                /\ stats_storage' = stats_storage
          /\ ( req'.kind = "stats" /\ resp'.status = 200 )
             => Unwrap(resp'.stats).is_expired =
                  ( redirect_short_url(req'.path, NoInfo, now, now)
                        .resp.status = 410 )
      ]_vars

\* the second redirect of a shortcode answered Expired
C20_Witness ==
    /\ req.kind = "redirect"
    /\ resp.status = 410
    /\ Gone(req.path) >= 2
    /\ now > ExpiresAt(req.path)

====
